---- MODULE Spec2Model ----
(***************************************************************************)
(* Model of src/source/pywhere.cpp: the TraceConfig path filter            *)
(* (constructor, should_trace, setInstance/getInstance), the GIL guard,    *)
(* the stack walk whereInPython and the registration entry point           *)
(* register_files_to_profile.                                              *)
(*                                                                         *)
(* C strings are TLA+ strings; a char* is a tuple: <<>> is the null        *)
(* pointer and <<s>> points at the bytes s.  A Python object is a record   *)
(* [kind, text, wide, items]; wide says that a str holds a code point      *)
(* above 127.                                                              *)
(***************************************************************************)
EXTENDS Integers, Sequences, FiniteSets, TLC

(* ------------------------------ bounds -------------------------------- *)

\* threads of the concurrent specification
NThreads == 2
\* TraceConfig objects ever allocated by the concurrent specification
MaxInstalls == 2
\* TraceConfig objects ever allocated by the sequential (walk) specification
MaxInstallsW == 1
\* frames per chain in the sequential (walk) specification
MaxDepth == 2
\* fragments concatenated into a probe path for should_trace
MaxFrags == 2

(* ------------------------------ strings ------------------------------- *)

NULL == <<>>

\* strstr(h, n) != nullptr, for non-null h and n
strstr(h, n) ==
  \E i \in 1..(Len(h) - Len(n) + 1) : SubSeq(h, i, i + Len(n) - 1) = n

\* *s == c : the first byte of s (the terminator when s is empty)
FirstIs(s, c) == Len(s) > 0 /\ SubSeq(s, 1, 1) = c

StartsWith(s, p) == Len(s) >= Len(p) /\ SubSeq(s, 1, Len(p)) = p

(* --------------------------- Python objects --------------------------- *)

PyStr(s)       == [kind |-> "str",   text |-> s,  wide |-> FALSE, items |-> <<>>]
PyWideStr(s)   == [kind |-> "str",   text |-> s,  wide |-> TRUE,  items |-> <<>>]
PyBytesObj(s)  == [kind |-> "bytes", text |-> s,  wide |-> FALSE, items |-> <<>>]
PyTupleObj(xs) == [kind |-> "tuple", text |-> "", wide |-> FALSE, items |-> xs]
PyListObj(xs)  == [kind |-> "list",  text |-> "", wide |-> FALSE, items |-> xs]

\* PyList_Check accepting any object.
PyList_Check_any(o) == TRUE

\* PyList_Check
PyList_Check(o) == o.kind = "list"

\* A conversion that never fails (it replaces what it cannot encode).
PyUnicode_AsASCIIString_lossy(o) == <<o.text>>

\* PyUnicode_AsASCIIString followed by PyBytes_AsString on a non-null
\* result: the bytes of an all-ASCII str; null for any other object
\* (TypeError) and for a str with a code point above 127
\* (UnicodeEncodeError).
PyUnicode_AsASCIIString(o) ==
  IF o.kind = "str" /\ ~o.wide THEN <<o.text>> ELSE NULL

(* ----------------------------- file system ---------------------------- *)

\* The file system realpath() runs against: the working directory, one
\* symbolic link and the files that exist (by canonical path).
Cwd == "/w"
LinkName == "/lnk"
LinkTarget == "/tmp/proj"
Files == {"/tmp/proj/a.py", "/tmp/proj/sub/a.py", "/opt/o/b.py",
          "/home/u/app/w.py", "/w/rel.py",
          "/usr/lib/python3/t.py", "/p/scalene/scalene/x.py"}

Absolute(p) == IF FirstIs(p, "/") THEN p ELSE Cwd \o "/" \o p

FollowLink(p) ==
  IF StartsWith(p, LinkName \o "/")
  THEN LinkTarget \o SubSeq(p, Len(LinkName) + 1, Len(p))
  ELSE p

\* realpath(filename, resolved_path): <<>> on failure (ENOENT), else
\* <<canonical path>>
realpath(p) ==
  IF p = "" THEN NULL
  ELSE LET q == FollowLink(Absolute(p))
       IN IF q \in Files THEN <<q>> ELSE NULL

(* ----------------------------- TraceConfig ---------------------------- *)

RECURSIVE ConvertItems(_)
ConvertItems(xs) ==
  IF xs = <<>> THEN <<>>
  ELSE <<PyUnicode_AsASCIIString(Head(xs))>> \o ConvertItems(Tail(xs))

\* The object the constructor builds (lines 19-31).
TraceConfigObj(a_list, base_path, profile_all_b) ==
  [owner |-> TRUE,
   items |-> ConvertItems(a_list.items),
   scalene_base_path |-> PyUnicode_AsASCIIString(base_path),
   profile_all |-> profile_all_b]

\* Whether the constructor hands a null pointer to PyBytes_AsString, which
\* dereferences it (undefined behaviour).
CtorDerefsNull(a_list, base_path) ==
  \/ \E i \in 1..Len(a_list.items) :
        PyUnicode_AsASCIIString(a_list.items[i]) = NULL
  \/ PyUnicode_AsASCIIString(base_path) = NULL

\* Outcomes of new TraceConfig(a_list, base_path, profile_all): the object,
\* and, where a null pointer is dereferenced, also a crash.
\* A non-list makes PyList_Size return -1 and items.reserve throw
\* (lines 24-25): the process terminates.
TraceConfigCtor(a_list, base_path, profile_all_b) ==
  LET obj == TraceConfigObj(a_list, base_path, profile_all_b)
  IN IF ~PyList_Check(a_list) THEN {[crashed |-> TRUE, obj |-> obj]}
     ELSE {[crashed |-> FALSE, obj |-> obj]}
          \cup (IF CtorDerefsNull(a_list, base_path)
                THEN {[crashed |-> TRUE, obj |-> obj]} ELSE {})

\* The loop of lines 48-52 from item i on: "match" when an item is found in
\* filename, "none" when the list is exhausted.  strstr with a null needle
\* is undefined: it may crash, or report anything.
RECURSIVE ScanItems(_, _, _)
ScanItems(items, i, filename) ==
  IF i > Len(items) THEN {"none"}
  ELSE IF items[i] = NULL
       THEN {"crash", "match"} \cup ScanItems(items, i + 1, filename)
       ELSE IF strstr(filename, items[i][1]) THEN {"match"}
            ELSE ScanItems(items, i + 1, filename)

\* Rule5 testing the path as given instead of the canonical one.
Rule5_uncanonical(cfg, filename) ==
  LET resolved_path == realpath(filename)
  IN IF resolved_path = NULL THEN {"abort"}
     ELSE IF cfg.scalene_base_path = NULL THEN {"crash", "true", "false"}
          ELSE IF strstr(filename, cfg.scalene_base_path[1])
               THEN {"true"} ELSE {"false"}

\* Rule5 accepting every path when profile_all is set.
Rule5_profileAll(cfg, filename) ==
  LET resolved_path == realpath(filename)
  IN IF cfg.profile_all THEN {"true"}
     ELSE IF resolved_path = NULL THEN {"abort"}
     ELSE IF cfg.scalene_base_path = NULL THEN {"crash", "true", "false"}
          ELSE IF strstr(resolved_path[1], cfg.scalene_base_path[1])
               THEN {"true"} ELSE {"false"}

\* Lines 55-61: canonicalize, abort on failure, else test the base path.
Rule5(cfg, filename) ==
  LET resolved_path == realpath(filename)
  IN IF resolved_path = NULL THEN {"abort"}
     ELSE IF cfg.scalene_base_path = NULL THEN {"crash", "true", "false"}
          ELSE IF strstr(resolved_path[1], cfg.scalene_base_path[1])
               THEN {"true"} ELSE {"false"}

\* should_trace with the include list consulted before the profiler's own
\* path is excluded.
should_trace_includeEarly(cfg, filename) ==
  IF strstr(filename, "site-packages") \/ strstr(filename, "/lib/python")
  THEN {"false"}
  ELSE IF FirstIs(filename, "<") /\ strstr(filename, "<ipython")
  THEN {"true"}
  ELSE LET scan == IF cfg.owner THEN ScanItems(cfg.items, 1, filename)
                   ELSE {"none"}
       IN ({IF r = "match" THEN "true" ELSE r : r \in scan \ {"none"}})
          \cup (IF "none" \in scan
                THEN (IF strstr(filename, "scalene/scalene") THEN {"false"}
                      ELSE Rule5(cfg, filename))
                ELSE {})

\* should_trace canonicalizing the path before any rule is tried.
should_trace_canonFirst(cfg, filename) ==
  IF realpath(filename) = NULL THEN {"abort"}
  ELSE IF strstr(filename, "site-packages") \/ strstr(filename, "/lib/python")
  THEN {"false"}
  ELSE IF FirstIs(filename, "<") /\ strstr(filename, "<ipython")
  THEN {"true"}
  ELSE IF strstr(filename, "scalene/scalene")
  THEN {"false"}
  ELSE LET scan == IF cfg.owner THEN ScanItems(cfg.items, 1, filename)
                   ELSE {"none"}
       IN ({IF r = "match" THEN "true" ELSE r : r \in scan \ {"none"}})
          \cup (IF "none" \in scan THEN Rule5(cfg, filename) ELSE {})

\* TraceConfig::should_trace(filename): the set of outcomes, each one of
\* "true", "false", "abort" (line 58) or "crash" (a null dereference).
should_trace(cfg, filename) ==
  IF strstr(filename, "site-packages") \/ strstr(filename, "/lib/python")
  THEN {"false"}
  ELSE IF FirstIs(filename, "<") /\ strstr(filename, "<ipython")
  THEN {"true"}
  ELSE IF strstr(filename, "scalene/scalene")
  THEN {"false"}
  ELSE LET scan == IF cfg.owner THEN ScanItems(cfg.items, 1, filename)
                   ELSE {"none"}
       IN ({IF r = "match" THEN "true" ELSE r : r \in scan \ {"none"}})
          \cup (IF "none" \in scan THEN Rule5(cfg, filename) ELSE {})

(* ------------------------------- inputs ------------------------------- *)

\* co_filename objects of the frames
FnEmpty    == PyStr("")
FnAngle    == PyStr("<stdin>")
FnIPython  == PyStr("<ipython-input-1>")
FnMidAngle == PyStr("/home/u/app/a<b.py")
FnStdlib   == PyStr("/usr/lib/python3/t.py")
FnScalene  == PyStr("/p/scalene/scalene/x.py")
FnSitePkg  == PyStr("/v/site-packages/app/m.py")
FnApp      == PyStr("/home/u/app/w.py")
FnOther    == PyStr("/opt/o/b.py")
FnLink     == PyStr("/lnk/a.py")
FnProj     == PyStr("/tmp/proj/sub/a.py")
FnGone     == PyStr("gone.py")
FnWide     == PyWideStr("/home/u/app/n.py")

FileNames == {FnEmpty, FnAngle, FnIPython, FnMidAngle, FnStdlib, FnScalene,
              FnSitePkg, FnApp, FnOther, FnLink, FnProj, FnGone, FnWide}

\* A frame: its code's co_filename, PyFrame_GetLineNumber, PyFrame_GetLasti.
\* The frame at depth i of a chain is at line 10*i + 1, instruction 2*i.
MkChain(names) ==
  [i \in 1..Len(names) |->
     [co_filename |-> names[i], lineno |-> 10 * i + 1, lasti |-> 2 * i]]

SeqsUpTo(S, n) == UNION {[1..k -> S] : k \in 0..n}

Chains  == {MkChain(ns) : ns \in SeqsUpTo(FileNames, MaxDepth)}
\* The chains of the concurrent specification.
ChainsC == {MkChain(<<>>), MkChain(<<FnApp>>), MkChain(<<FnWide>>),
            MkChain(<<FnEmpty>>), MkChain(<<FnOther, FnApp>>)}

NoSnap == [self |-> 0, threads |-> <<>>]

\* What the interpreter shows a call: its thread states in enumeration
\* order, each with an id and a current frame chain (<<>>: no frame), and
\* the index of the calling thread's own state (0: it has none).
OwnSnap(chain) == [self |-> 1, threads |-> <<[id |-> 1, frame |-> chain]>>]
\* The calling thread has no frame (or no thread state): two other threads,
\* enumerated in either order of their ids.
FallbackSnaps ==
  {[self |-> s, threads |-> <<[id |-> i, frame |-> <<>>],
                             [id |-> 7, frame |-> c1],
                             [id |-> 10 - i, frame |-> c2]>>] :
     s \in {0, 1}, i \in {1, 9}, c1 \in {<<>>, MkChain(<<FnApp>>)},
     c2 \in {<<>>, MkChain(<<FnOther, FnProj>>)}}
    \cup {NoSnap}
Snaps  == {OwnSnap(c) : c \in Chains} \cup FallbackSnaps
SnapsC == {OwnSnap(c) : c \in ChainsC}

\* Values the caller's filename, lineno and bytei hold before a call.
Sentinel == [filename |-> "<BOGUS>", lineno |-> 1, bytei |-> 0]
Priors == {[filename |-> "/old/f.py", lineno |-> 7, bytei |-> 4]}

\* Argument tuples of register_files_to_profile: n is the tuple's length.
MkArgs(l, b, p) == [n |-> 3, a_list |-> l, base_path |-> b, profile_all |-> p]
ArgsGood  == MkArgs(PyListObj(<<PyStr("app/")>>), PyStr("/tmp/proj"), FALSE)
ArgsEmpty == MkArgs(PyListObj(<<>>), PyStr("/tmp/proj"), TRUE)
ArgsOther == MkArgs(PyListObj(<<PyStr("gone"), PyStr("/o/")>>), PyStr("/home"), FALSE)
ArgsTuple == MkArgs(PyTupleObj(<<PyStr("app/")>>), PyStr("/tmp/proj"), FALSE)
ArgsStr   == MkArgs(PyStr("app/"), PyStr("/tmp/proj"), FALSE)
ArgsBytes == MkArgs(PyListObj(<<PyBytesObj("zzz"), PyStr("app/")>>), PyStr("/tmp/proj"), FALSE)
ArgsWide  == MkArgs(PyListObj(<<PyStr("app/")>>), PyWideStr("/tmp/proj"), FALSE)
ArgsShort == [n |-> 2, a_list |-> PyListObj(<<>>), base_path |-> PyStr(""), profile_all |-> FALSE]

ArgSets  == {ArgsGood, ArgsEmpty, ArgsOther, ArgsTuple, ArgsStr, ArgsBytes,
             ArgsWide, ArgsShort}
ArgSetsC == {ArgsGood, ArgsEmpty, ArgsTuple}

(* ------------------------------- state -------------------------------- *)

VARIABLES
  pyInit,      \* Py_IsInitialized()
  proc,        \* "running", "aborted" (abort(), line 58) or "crashed"
  gil,         \* the thread holding the interpreter lock, 0 when free
  mutex,       \* the thread holding TraceConfig::_instanceMutex, 0 when free
  instance,    \* TraceConfig::_instance: an index into heap, 0 for null
  heap,        \* every TraceConfig allocated: [cfg, alive, frees]
  p_where,     \* the published entry point *p_whereInPython
  pc,          \* where each thread is
  loc,         \* whereInPython's arguments, locals and result, per thread
  reg,         \* register_files_to_profile's locals and result, per thread
  probe        \* a direct call of should_trace: [cfg, path, res]

vars == <<pyInit, proc, gil, mutex, instance, heap, p_where, pc, loc, reg, probe>>

Threads == 1..NThreads

\* loc[t]: the caller's filename/lineno/bytei, the return value ret (-1: none
\* yet), the locals gil (_gstate), traceConfig, frame (chain and the index
\* pos of the current frame; pos beyond the chain is nullptr), and the
\* bookkeeping of the call: the values before it (prior, gilBefore), the
\* interpreter snapshot it saw, the loop iterations it ran, the exit it took,
\* whether it used a destroyed TraceConfig and the indexes (asked) of the
\* frames it called should_trace for.
LocInit ==
  [filename |-> "", lineno |-> 0, bytei |-> 0, ret |-> -1,
   gstate |-> "none", traceConfig |-> 0, chain |-> <<>>, pos |-> 1,
   prior |-> [filename |-> "", lineno |-> 0, bytei |-> 0],
   gilBefore |-> FALSE, snap |-> NoSnap, iters |-> 0, exit |-> "none",
   uaf |-> FALSE, asked |-> {}]

RegInit ==
  [args |-> [n |-> 0, a_list |-> PyListObj(<<>>), base_path |-> PyStr(""),
             profile_all |-> FALSE],
   fresh |-> 0, result |-> "none"]

NoProbe == [cfg |-> TraceConfigObj(PyListObj(<<>>), PyStr(""), FALSE),
            path |-> "", res |-> "none", built |-> FALSE]

Init ==
  /\ pyInit = FALSE
  /\ proc = "running"
  /\ gil = 0
  /\ mutex = 0
  /\ instance = 0
  /\ heap = <<>>
  /\ p_where = "null"
  /\ pc = [t \in Threads |-> "idle"]
  /\ loc = [t \in Threads |-> LocInit]
  /\ reg = [t \in Threads |-> RegInit]
  /\ probe = NoProbe

(* ----------------------- the interpreter's side ----------------------- *)

\* Py_Initialize: the runtime comes up.
PyInitialize ==
  /\ proc = "running" /\ ~pyInit
  /\ pyInit' = TRUE
  /\ UNCHANGED <<proc, gil, mutex, instance, heap, p_where, pc, loc, reg, probe>>

\* A Python thread is scheduled: it takes the interpreter lock and runs
\* Python code (from which the extension's methods are called).
PyTake(t) ==
  /\ proc = "running" /\ pyInit /\ pc[t] = "idle" /\ gil = 0
  /\ gil' = t
  /\ UNCHANGED <<pyInit, proc, mutex, instance, heap, p_where, pc, loc, reg, probe>>

\* It yields the interpreter lock between bytecodes.
PyDrop(t) ==
  /\ proc = "running" /\ pc[t] = "idle" /\ gil = t
  /\ gil' = 0
  /\ UNCHANGED <<pyInit, proc, mutex, instance, heap, p_where, pc, loc, reg, probe>>

(* ------------------------------ the GIL ------------------------------- *)

\* GIL::GIL(), PyGILState_Ensure: a thread that holds the lock keeps it and
\* is told so (LOCKED); any other thread waits for it and takes it.
GIL_CanEnsure(t) == gil = t \/ gil = 0
GIL_Ensure_gstate(t) == IF gil = t THEN "LOCKED" ELSE "UNLOCKED"

\* A release that gives the lock up whatever Ensure reported.
GIL_Release_always(t) == 0

\* GIL::~GIL(), PyGILState_Release(_gstate): gives the lock up only when
\* Ensure took it.
GIL_Release(t) == IF loc[t].gstate = "UNLOCKED" THEN 0 ELSE gil

(* --------------------------- whereInPython ---------------------------- *)

\* The main thread taken to be the last one enumerated.
FindMain_last(threads, i, main) == Len(threads)

\* findMainPythonThread_frame: the frame of the thread state with the
\* smallest id, scanning from index i with the best so far (0: nullptr).
RECURSIVE FindMain(_, _, _)
FindMain(threads, i, main) ==
  IF i > Len(threads) THEN main
  ELSE FindMain(threads, i + 1,
                IF main = 0 \/ threads[main].id > threads[i].id THEN i ELSE main)

findMainPythonThread_frame(threads) ==
  LET main == FindMain(threads, 1, 0)
  IN IF main # 0 THEN threads[main].frame ELSE <<>>

\* Lines 165-173: the calling thread's frame, else the main thread's.
StartFrame(snap) ==
  LET own == IF snap.self # 0 THEN snap.threads[snap.self].frame ELSE <<>>
  IN IF own = <<>> THEN findMainPythonThread_frame(snap.threads) ELSE own

\* A pre-filter that lets every name through.
PreFilter_open(filenameStr) == TRUE

\* Line 192: the test a name passes before the filter is asked.
PreFilter(filenameStr) ==
  /\ ~strstr(filenameStr, "<")
  /\ ~strstr(filenameStr, "/python")
  /\ ~strstr(filenameStr, "scalene/scalene")

\* traceConfig->should_trace(filenameStr) through the pointer p: on a
\* destroyed object the read of items and scalene_base_path is undefined.
ShouldTraceVia(p, filenameStr) ==
  IF heap[p].alive THEN should_trace(heap[p].cfg, filenameStr)
  ELSE {"true", "false", "abort", "crash"}

IterCap == MaxDepth + 2
Bump(n) == IF n < IterCap THEN n + 1 ELSE n

\* A return of whereInPython after line 163: the value r, by exit e, with
\* the locals l; gil's destructor runs.
W_Return(t, l, r, e) ==
  /\ loc' = [loc EXCEPT ![t] = [l EXCEPT !.ret = r, !.exit = e]]
  /\ pc' = [pc EXCEPT ![t] = "w_ret"]
  /\ gil' = GIL_Release(t)
  /\ UNCHANGED proc

\* SentinelOut forgetting the assignments: the outputs keep their values.
SentinelOut_kept(l) == l

\* Lines 160-162: the outputs are set to the sentinel.
SentinelOut(l) == [l EXCEPT !.filename = "<BOGUS>", !.lineno = 1, !.bytei = 0]

\* The call and lines 151-162. The caller's variables hold some earlier
\* values; an uninitialized runtime returns 0 at once.
W_Call(t, priors) ==
  /\ proc = "running" /\ pc[t] = "idle"
  /\ \E pr \in priors :
       LET l == [LocInit EXCEPT !.prior = pr, !.gilBefore = (gil = t),
                                !.filename = pr.filename,
                                !.lineno = pr.lineno, !.bytei = pr.bytei]
       IN IF ~pyInit
          THEN /\ loc' = [loc EXCEPT ![t] = [l EXCEPT !.ret = 0, !.exit = "uninit"]]
               /\ pc' = [pc EXCEPT ![t] = "w_ret"]
          ELSE /\ loc' = [loc EXCEPT ![t] = SentinelOut(l)]
               /\ pc' = [pc EXCEPT ![t] = "w_gil"]
  /\ UNCHANGED <<pyInit, proc, gil, mutex, instance, heap, p_where, reg, probe>>

\* W_Gil without the guard object: the walk runs without the lock.
W_Gil_unguarded(t) ==
  /\ proc = "running" /\ pc[t] = "w_gil"
  /\ loc' = [loc EXCEPT ![t].gstate = "LOCKED"]
  /\ pc' = [pc EXCEPT ![t] = "w_frame"]
  /\ UNCHANGED <<pyInit, proc, gil, mutex, instance, heap, p_where, reg, probe>>

\* Line 163: GIL gil.
W_Gil(t) ==
  /\ proc = "running" /\ pc[t] = "w_gil"
  /\ GIL_CanEnsure(t)
  /\ loc' = [loc EXCEPT ![t].gstate = GIL_Ensure_gstate(t)]
  /\ gil' = t
  /\ pc' = [pc EXCEPT ![t] = "w_frame"]
  /\ UNCHANGED <<pyInit, proc, mutex, instance, heap, p_where, reg, probe>>

\* Lines 165-173: the frame to start from, in the interpreter state the
\* call finds.
W_Frame(t, snaps) ==
  /\ proc = "running" /\ pc[t] = "w_frame"
  /\ \E snap \in snaps :
       loc' = [loc EXCEPT ![t].snap = snap, ![t].chain = StartFrame(snap),
                          ![t].pos = 1]
  /\ pc' = [pc EXCEPT ![t] = "w_get"]
  /\ UNCHANGED <<pyInit, proc, gil, mutex, instance, heap, p_where, reg, probe>>

\* W_GetInstance without the test of line 176: the walk starts whatever
\* getInstance returned.
W_GetInstance_noCheck(t) ==
  /\ proc = "running" /\ pc[t] = "w_get"
  /\ mutex = 0
  /\ loc' = [loc EXCEPT ![t].traceConfig = instance]
  /\ pc' = [pc EXCEPT ![t] = "w_walk"]
  /\ UNCHANGED <<pyInit, proc, gil, mutex, instance, heap, p_where, reg, probe>>

\* Lines 175-178: TraceConfig::getInstance() under _instanceMutex, and the
\* return when no filter is installed.
W_GetInstance(t) ==
  /\ proc = "running" /\ pc[t] = "w_get"
  /\ mutex = 0
  /\ IF instance = 0
     THEN W_Return(t, loc[t], 0, "nofilter")
     ELSE /\ loc' = [loc EXCEPT ![t].traceConfig = instance]
          /\ pc' = [pc EXCEPT ![t] = "w_walk"]
          /\ UNCHANGED <<gil, proc>>
  /\ UNCHANGED <<pyInit, mutex, instance, heap, p_where, reg, probe>>

\* One evaluation of the loop of lines 180-211, or the return of line 212.
W_Step(t) ==
  /\ proc = "running" /\ pc[t] = "w_walk"
  /\ LET l == loc[t] IN
     IF l.pos > Len(l.chain)
     THEN W_Return(t, l, 0, "exhausted")
     ELSE
       LET frame == l.chain[l.pos]
           co_filename == PyUnicode_AsASCIIString(frame.co_filename)
           li == [l EXCEPT !.iters = Bump(l.iters)]
           next == [li EXCEPT !.pos = l.pos + 1]
       IN IF co_filename = NULL
          THEN W_Return(t, li, 0, "undecodable")
          ELSE IF Len(co_filename[1]) = 0
          THEN \* line 189: continue, with frame unchanged
               /\ loc' = [loc EXCEPT ![t] = li]
               /\ UNCHANGED <<pc, gil, proc>>
          ELSE IF PreFilter(co_filename[1])
          THEN \E r \in ShouldTraceVia(l.traceConfig, co_filename[1]) :
                 LET lu == [next EXCEPT !.uaf = l.uaf \/ ~heap[l.traceConfig].alive,
                                        !.asked = l.asked \cup {l.pos}]
                 IN CASE r = "true" ->
                           W_Return(t, [li EXCEPT !.bytei = frame.lasti,
                                                  !.lineno = frame.lineno,
                                                  !.filename = co_filename[1],
                                                  !.uaf = lu.uaf,
                                                  !.asked = lu.asked],
                                    1, "found")
                      [] r = "false" ->
                           /\ loc' = [loc EXCEPT ![t] = lu]
                           /\ UNCHANGED <<pc, gil, proc>>
                      [] r = "abort" ->
                           /\ proc' = "aborted"
                           /\ loc' = [loc EXCEPT ![t] = lu]
                           /\ UNCHANGED <<pc, gil>>
                      [] r = "crash" ->
                           /\ proc' = "crashed"
                           /\ loc' = [loc EXCEPT ![t] = lu]
                           /\ UNCHANGED <<pc, gil>>
          ELSE /\ loc' = [loc EXCEPT ![t] = next]
               /\ UNCHANGED <<pc, gil, proc>>
  /\ UNCHANGED <<pyInit, mutex, instance, heap, p_where, reg, probe>>

\* The caller has taken the result; the call's locals are gone.
W_Done(t) ==
  /\ proc = "running" /\ pc[t] = "w_ret"
  /\ pc' = [pc EXCEPT ![t] = "idle"]
  /\ loc' = [loc EXCEPT ![t] = LocInit]
  /\ UNCHANGED <<pyInit, proc, gil, mutex, instance, heap, p_where, reg, probe>>

(* --------------------- register_files_to_profile ---------------------- *)

\* Lines 219-226 up to the call of setInstance. CPython calls the method
\* with the interpreter lock held. result is what the caller gets: an
\* exception (NULL) or None.
R_Call(t, argsets, maxInstalls) ==
  /\ proc = "running" /\ pyInit /\ pc[t] = "idle" /\ gil = t
  /\ \E args \in argsets :
       LET r == [RegInit EXCEPT !.args = args] IN
       IF args.n # 3
       THEN \* PyArg_ParseTuple fails
            /\ reg' = [reg EXCEPT ![t] = [r EXCEPT !.result = "exc_args"]]
            /\ pc' = [pc EXCEPT ![t] = "r_ret"]
            /\ UNCHANGED <<heap, proc>>
       ELSE IF ~PyList_Check(args.a_list)
       THEN /\ reg' = [reg EXCEPT ![t] = [r EXCEPT !.result = "exc_list"]]
            /\ pc' = [pc EXCEPT ![t] = "r_ret"]
            /\ UNCHANGED <<heap, proc>>
       ELSE /\ Len(heap) < maxInstalls
            /\ \E o \in TraceConfigCtor(args.a_list, args.base_path, args.profile_all) :
                 IF o.crashed
                 THEN /\ proc' = "crashed"
                      /\ reg' = [reg EXCEPT ![t] = r]
                      /\ pc' = [pc EXCEPT ![t] = "r_new"]
                      /\ UNCHANGED heap
                 ELSE /\ heap' = Append(heap, [cfg |-> o.obj, alive |-> TRUE, frees |-> 0])
                      /\ reg' = [reg EXCEPT ![t] = [r EXCEPT !.fresh = Len(heap) + 1]]
                      /\ pc' = [pc EXCEPT ![t] = "r_lock"]
                      /\ UNCHANGED proc
  /\ UNCHANGED <<pyInit, gil, mutex, instance, p_where, loc, probe>>

\* setInstance, line 73: the lock_guard takes _instanceMutex.
S_Lock(t) ==
  /\ proc = "running" /\ pc[t] = "r_lock"
  /\ mutex = 0
  /\ mutex' = t
  /\ pc' = [pc EXCEPT ![t] = "r_delete"]
  /\ UNCHANGED <<pyInit, proc, gil, instance, heap, p_where, loc, reg, probe>>

\* A delete that frees nothing.
Delete_leak(p) == heap

\* The heap after delete p (nothing for a null pointer).
Delete(p) ==
  IF p = 0 THEN heap
  ELSE [heap EXCEPT ![p].alive = FALSE, ![p].frees = heap[p].frees + 1]

\* setInstance, line 74: delete _instance.
S_Delete(t) ==
  /\ proc = "running" /\ pc[t] = "r_delete"
  /\ heap' = Delete(instance)
  /\ pc' = [pc EXCEPT ![t] = "r_assign"]
  /\ UNCHANGED <<pyInit, proc, gil, mutex, instance, p_where, loc, reg, probe>>

\* setInstance, line 75: _instance = instance.
S_Assign(t) ==
  /\ proc = "running" /\ pc[t] = "r_assign"
  /\ instance' = reg[t].fresh
  /\ pc' = [pc EXCEPT ![t] = "r_unlock"]
  /\ UNCHANGED <<pyInit, proc, gil, mutex, heap, p_where, loc, reg, probe>>

\* S_Unlock without the release: setInstance returns with the lock taken.
S_Unlock_held(t) ==
  /\ proc = "running" /\ pc[t] = "r_unlock"
  /\ pc' = [pc EXCEPT ![t] = "r_dlsym"]
  /\ UNCHANGED <<pyInit, proc, gil, mutex, instance, heap, p_where, loc, reg, probe>>

\* setInstance, line 76: the lock_guard releases _instanceMutex.
S_Unlock(t) ==
  /\ proc = "running" /\ pc[t] = "r_unlock"
  /\ mutex' = 0
  /\ pc' = [pc EXCEPT ![t] = "r_dlsym"]
  /\ UNCHANGED <<pyInit, proc, gil, instance, heap, p_where, loc, reg, probe>>

\* Lines 228-236: dlsym finds the symbol p_whereInPython or not.
R_Publish(t) ==
  /\ proc = "running" /\ pc[t] = "r_dlsym"
  /\ \E found \in BOOLEAN :
       IF ~found
       THEN /\ reg' = [reg EXCEPT ![t].result = "exc_dlsym"]
            /\ UNCHANGED p_where
       ELSE /\ p_where' = "whereInPython"
            /\ reg' = [reg EXCEPT ![t].result = "None"]
  /\ pc' = [pc EXCEPT ![t] = "r_ret"]
  /\ UNCHANGED <<pyInit, proc, gil, mutex, instance, heap, loc, probe>>

\* The Python caller has the result.
R_Done(t) ==
  /\ proc = "running" /\ pc[t] = "r_ret"
  /\ pc' = [pc EXCEPT ![t] = "idle"]
  /\ reg' = [reg EXCEPT ![t] = RegInit]
  /\ UNCHANGED <<pyInit, proc, gil, mutex, instance, heap, p_where, loc, probe>>

(* ----------------------- should_trace, directly ----------------------- *)

Frags == {"<", "<ipython", "site-packages", "/lib/python", "scalene/scalene",
          "app/", "/o/", "/tmp/proj", "/lnk/a.py"}

RECURSIVE Concat(_)
Concat(fs) == IF fs = <<>> THEN "" ELSE Head(fs) \o Concat(Tail(fs))

ProbePaths == {Concat(fs) : fs \in SeqsUpTo(Frags, MaxFrags)}
                \cup {n.text : n \in FileNames} \cup Files \cup {"rel.py"}

\* A TraceConfig is built (lines 17-32).
Probe_New(argsets) ==
  /\ \E args \in argsets :
       /\ args.n = 3
       /\ \E o \in TraceConfigCtor(args.a_list, args.base_path, args.profile_all) :
            /\ ~o.crashed
            /\ probe' = [cfg |-> o.obj, path |-> "", res |-> "none", built |-> TRUE]
  /\ UNCHANGED <<pyInit, proc, gil, mutex, instance, heap, p_where, pc, loc, reg>>

\* should_trace is called on it (lines 34-62).
Probe_Call(paths) ==
  /\ probe.built
  /\ \E path \in paths :
       \E r \in should_trace(probe.cfg, path) :
          probe' = [probe EXCEPT !.path = path, !.res = r]
  /\ UNCHANGED <<pyInit, proc, gil, mutex, instance, heap, p_where, pc, loc, reg>>

(* --------------------------- specifications --------------------------- *)

\* Threads calling whereInPython and register_files_to_profile concurrently.
Next ==
  \/ PyInitialize
  \/ \E t \in Threads :
       \/ PyTake(t)
       \/ PyDrop(t)
       \/ W_Call(t, Priors)
       \/ W_Gil(t)
       \/ W_Frame(t, SnapsC)
       \/ W_GetInstance(t)
       \/ W_Step(t)
       \/ W_Done(t)
       \/ R_Call(t, ArgSetsC, MaxInstalls)
       \/ S_Lock(t)
       \/ S_Delete(t)
       \/ S_Assign(t)
       \/ S_Unlock(t)
       \/ R_Publish(t)
       \/ R_Done(t)

Spec == Init /\ [][Next]_vars

\* One thread, every frame chain and every argument tuple.
NextWalk ==
  \/ PyInitialize
  \/ PyTake(1)
  \/ PyDrop(1)
  \/ W_Call(1, Priors)
  \/ W_Gil(1)
  \/ W_Frame(1, Snaps)
  \/ W_GetInstance(1)
  \/ W_Step(1)
  \/ W_Done(1)
  \/ R_Call(1, ArgSets, MaxInstallsW)
  \/ S_Lock(1)
  \/ S_Delete(1)
  \/ S_Assign(1)
  \/ S_Unlock(1)
  \/ R_Publish(1)
  \/ R_Done(1)

SpecWalk == Init /\ [][NextWalk]_vars

\* should_trace as a function of the filter and the path.
NextST ==
  \/ Probe_New(ArgSets)
  \/ Probe_Call(ProbePaths)

SpecST == Init /\ [][NextST]_vars

(* ------------------------------- claims ------------------------------- *)

\* The filter a walk of thread t matches against.
Walking(t) == pc[t] = "w_walk"
Returned(t) == pc[t] = "w_ret"
FilterOf(t) == heap[loc[t].traceConfig].cfg
Out(t) == [filename |-> loc[t].filename, lineno |-> loc[t].lineno,
           bytei |-> loc[t].bytei]

\* C1: a walk that has fetched the filter pointer never calls should_trace
\* on a destroyed TraceConfig: the object the pointer designates stays
\* alive for as long as the walk runs, whatever registrations the other
\* threads attempt.
C1_NoUseAfterFree ==
  \A t \in Threads :
    /\ ~loc[t].uaf
    /\ Walking(t) => heap[loc[t].traceConfig].alive

\* A walk has evaluated a frame against the current filter, itself the
\* replacement of a destroyed one, while another thread is ready to register
\* again.
C1_Witness ==
  \E t \in Threads, u \in Threads :
    /\ t # u /\ Walking(t) /\ loc[t].iters >= 1 /\ gil = t
    /\ loc[t].traceConfig = instance
    /\ \E i \in 1..Len(heap) : ~heap[i].alive
    /\ pc[u] = "idle"

\* C2: the walk visits each frame at most once: a call never runs more loop
\* iterations than its chain has frames.
C2_WalkBounded ==
  \A t \in Threads : loc[t].iters <= Len(loc[t].chain)

\* C3: a call on an uninitialized runtime returns 0 with the outputs equal
\* to the sentinel, whatever they held before.
C3_UninitSentinel ==
  \A t \in Threads :
    (Returned(t) /\ loc[t].exit = "uninit") =>
      (loc[t].ret = 0 /\ Out(t) = Sentinel)

\* A frame the filter cfg accepts: its name is decodable, not empty, passes
\* the pre-filter and should_trace is true.
InScope(cfg, fr) ==
  LET n == PyUnicode_AsASCIIString(fr.co_filename)
  IN /\ n # NULL /\ n[1] # "" /\ PreFilter(n[1])
     /\ should_trace(cfg, n[1]) = {"true"}

\* A frame that is excluded: an empty name, one the pre-filter rejects, or
\* one for which should_trace is false.
Excluded(cfg, fr) ==
  LET n == PyUnicode_AsASCIIString(fr.co_filename)
  IN /\ n # NULL
     /\ \/ n[1] = ""
        \/ ~PreFilter(n[1])
        \/ should_trace(cfg, n[1]) = {"false"}

\* Frame k is the only in-scope frame of the chain and all others are
\* excluded.
OnlyInScope(cfg, chain, k) ==
  /\ k \in 1..Len(chain)
  /\ InScope(cfg, chain[k])
  /\ \A j \in 1..Len(chain) : j # k => Excluded(cfg, chain[j])

\* C4: with a filter installed, a call on a chain whose only in-scope frame
\* is at depth k, all others excluded, returns 1 with that frame's name,
\* line and instruction offset: it has returned once the loop has run k
\* times, and what it returns is frame k.
C4_OnlyInScopeFound ==
  \A t \in Threads :
    (loc[t].traceConfig # 0 /\ (Walking(t) \/ Returned(t))) =>
      \A k \in 1..Len(loc[t].chain) :
        OnlyInScope(FilterOf(t), loc[t].chain, k) =>
          /\ loc[t].iters >= k => Returned(t)
          /\ Returned(t) =>
               /\ loc[t].ret = 1
               /\ loc[t].filename = loc[t].chain[k].co_filename.text
               /\ loc[t].lineno = loc[t].chain[k].lineno
               /\ loc[t].bytei = loc[t].chain[k].lasti

Rule1(f) == strstr(f, "site-packages") \/ strstr(f, "/lib/python")
Rule2(f) == FirstIs(f, "<") /\ strstr(f, "<ipython")
Rule3(f) == strstr(f, "scalene/scalene")
\* Some include fragment is a substring of f, and the entries before the
\* first such fragment are byte strings too.
Rule4(cfg, f) ==
  \E i \in 1..Len(cfg.items) :
    /\ cfg.items[i] # NULL /\ strstr(f, cfg.items[i][1])
    /\ \A j \in 1..(i - 1) : cfg.items[j] # NULL
\* No include fragment is a substring of f (every entry a byte string).
NoRule4(cfg, f) ==
  \A i \in 1..Len(cfg.items) :
    cfg.items[i] # NULL /\ ~strstr(f, cfg.items[i][1])

Probed == probe.res # "none"

\* C6: should_trace decides by the first matching rule in the order 1-4:
\* site-packages or /lib/python gives false whatever the include list and
\* the base path; else a leading '<' with <ipython gives true; else the
\* profiler's own fragment gives false even if an include fragment matches;
\* else a matching include fragment gives true.
C6_RuleOrder ==
  Probed =>
    LET f == probe.path
        c == probe.cfg
    IN /\ Rule1(f) => probe.res = "false"
       /\ (~Rule1(f) /\ Rule2(f)) => probe.res = "true"
       /\ (~Rule1(f) /\ ~Rule2(f) /\ Rule3(f)) => probe.res = "false"
       /\ (~Rule1(f) /\ ~Rule2(f) /\ ~Rule3(f) /\ Rule4(c, f)) => probe.res = "true"

\* should_trace has refused a path of the profiler's own module that an
\* include fragment matches.
C6_Witness ==
  /\ Probed /\ ~Rule1(probe.path) /\ ~Rule2(probe.path)
  /\ Rule3(probe.path) /\ Rule4(probe.cfg, probe.path)
  /\ probe.res = "false"

\* C7: for a path that matches none of rules 1-4 and can be canonicalized,
\* should_trace is true exactly when the canonical path contains the base
\* path.
C7_CanonicalBase ==
  LET f == probe.path
      c == probe.cfg
  IN (/\ Probed
      /\ ~Rule1(f) /\ ~Rule2(f) /\ ~Rule3(f) /\ NoRule4(c, f)
      /\ c.scalene_base_path # NULL
      /\ realpath(f) # NULL)
     => /\ probe.res \in {"true", "false"}
        /\ (probe.res = "true") <=> strstr(realpath(f)[1], c.scalene_base_path[1])

\* should_trace has accepted, by rule 5, a path that reaches the base path
\* only through a symbolic link.
C7_Witness ==
  /\ Probed /\ probe.res = "true"
  /\ ~Rule1(probe.path) /\ ~Rule2(probe.path) /\ ~Rule3(probe.path)
  /\ NoRule4(probe.cfg, probe.path)
  /\ probe.cfg.scalene_base_path # NULL
  /\ ~strstr(probe.path, probe.cfg.scalene_base_path[1])

\* C8: a registration whose patterns argument is not a list returns an
\* error to its caller and leaves _instance, the TraceConfig objects and the
\* published entry point as they were.
C8_NotListRejected ==
  [][\A t \in Threads :
       (/\ pc[t] = "idle" /\ pc'[t] # "idle"
        /\ reg'[t].args.n = 3 /\ reg'[t].args.a_list.kind # "list")
       => /\ pc'[t] = "r_ret" /\ reg'[t].result = "exc_list"
          /\ proc' = proc
          /\ instance' = instance /\ heap' = heap /\ p_where' = p_where]_vars

\* A non-list registration has failed with a filter installed and the
\* entry point published.
C8_Witness ==
  \E t \in Threads :
    /\ pc[t] = "r_ret" /\ reg[t].result = "exc_list"
    /\ instance # 0 /\ heap[instance].alive /\ p_where = "whereInPython"

\* C9: when whereInPython has returned, the calling thread holds the
\* interpreter lock exactly if it held it before the call, by whichever exit
\* it returned; the exit for an uninitialized runtime never took it.
C9_GilRestored ==
  \A t \in Threads :
    Returned(t) =>
      /\ (gil = t) <=> loc[t].gilBefore
      /\ loc[t].exit \in {"uninit", "nofilter", "undecodable", "found", "exhausted"}
      /\ loc[t].exit = "uninit" <=> loc[t].gstate = "none"

\* A thread that held the lock before the call has it back after an early
\* return (undecodable name), with the other thread still waiting for it.
C9_Witness ==
  \E t \in Threads, u \in Threads :
    /\ Returned(t) /\ loc[t].exit = "undecodable" /\ loc[t].gilBefore /\ gil = t
    /\ pc[u] = "w_gil"

\* Thread t is inside setInstance's critical section.
InSwap(t) == pc[t] \in {"r_delete", "r_assign", "r_unlock"}
\* Object i is constructed and not yet installed.
Pending(i) ==
  \E t \in Threads : pc[t] \in {"r_lock", "r_delete", "r_assign"} /\ reg[t].fresh = i

\* C10: swaps of _instance exclude each other; whenever no swap is under
\* way, _instance is null (only before the first installation) or designates
\* a live object, every object that was replaced has been destroyed, exactly
\* once, and no object is destroyed twice; the pointer a reader has fetched
\* designates a constructed, live object.
C10_SwapExclusive ==
  /\ Cardinality({t \in Threads : InSwap(t)}) <= 1
  /\ \A t \in Threads : InSwap(t) <=> mutex = t
  /\ \A i \in 1..Len(heap) : heap[i].frees <= 1 /\ (heap[i].alive <=> heap[i].frees = 0)
  /\ mutex = 0 =>
       /\ instance = 0 <=> \A i \in 1..Len(heap) : Pending(i)
       /\ instance # 0 => heap[instance].alive
       /\ \A i \in 1..Len(heap) :
            (i # instance /\ ~Pending(i)) => (~heap[i].alive /\ heap[i].frees = 1)
  /\ \A t \in Threads :
       Walking(t) => (loc[t].traceConfig \in 1..Len(heap)
                      /\ heap[loc[t].traceConfig].alive)

\* A second installation has replaced and destroyed the first, and a reader
\* has fetched the new pointer.
C10_Witness ==
  /\ mutex = 0 /\ instance = 2 /\ ~heap[1].alive /\ heap[1].frees = 1
  /\ \E t \in Threads : Walking(t) /\ loc[t].traceConfig = 2

\* A well-formed argument tuple whose patterns or base path are malformed:
\* not a list, or an item or the base path without an ASCII byte string.
Malformed(args) ==
  /\ args.n = 3
  /\ \/ ~PyList_Check(args.a_list)
     \/ CtorDerefsNull(args.a_list, args.base_path)

\* C11: a registration with malformed arguments returns a failure to its
\* caller, and the process never crashes, neither in the registration nor in
\* a later should_trace against what it installed.
C11_MalformedReported ==
  /\ proc # "crashed"
  /\ \A t \in Threads :
       (pc[t] = "r_ret" /\ Malformed(reg[t].args)) => reg[t].result # "None"

\* C12: when a registration returns, _instance designates the object the
\* call constructed exactly if the call returns None; a call that returns an
\* exception has constructed and installed nothing, so the filter that was
\* current before it still is, alive.  (The calling thread holds the
\* interpreter lock from the call to the return, so no other registration
\* comes between.)
C12_ReplacedIffSuccess ==
  \A t \in Threads :
    pc[t] = "r_ret" =>
      ((reg[t].fresh # 0 /\ instance = reg[t].fresh) <=> reg[t].result = "None")

\* The walk of thread t has dealt with frame j: it went past it, or returned
\* at it.
Visited(t, j) ==
  \/ j < loc[t].pos
  \/ j = loc[t].pos /\ Returned(t) /\ loc[t].exit \in {"found", "undecodable"}

\* A name should_trace is to be asked about: not empty, no leading '<', no
\* "/python", not the profiler's own fragment.
Eligible(n) ==
  /\ n # "" /\ ~FirstIs(n, "<")
  /\ ~strstr(n, "/python") /\ ~strstr(n, "scalene/scalene")

\* C13: among the frames a walk has dealt with, should_trace has been called
\* for exactly those with an eligible name; in particular for a name that
\* holds '<' only after its first byte.
C13_AskedIffEligible ==
  \A t \in Threads :
    (Walking(t) \/ Returned(t)) =>
      \A j \in 1..Len(loc[t].chain) :
        LET n == PyUnicode_AsASCIIString(loc[t].chain[j].co_filename)
        IN /\ j \in loc[t].asked => (n # NULL /\ Eligible(n[1]))
           /\ (Visited(t, j) /\ n # NULL /\ Eligible(n[1])) => j \in loc[t].asked

\* A frame whose co_filename has no ASCII encoding.
Undecodable(fr) == fr.co_filename.kind # "str" \/ fr.co_filename.wide

\* C14: with a filter installed, a walk whose frame k has an undecodable
\* name, the frames inner to it being excluded, returns 0 with the sentinel
\* at frame k, whatever the outer frames are: it has returned once the loop
\* has run k times (given no inner name is empty), and it returns by the
\* exit of line 184 without having gone past frame k.
C14_UndecodableStops ==
  \A t \in Threads :
    (loc[t].traceConfig # 0 /\ (Walking(t) \/ Returned(t))) =>
      \A k \in 1..Len(loc[t].chain) :
        (/\ Undecodable(loc[t].chain[k])
         /\ \A j \in 1..(k - 1) : Excluded(FilterOf(t), loc[t].chain[j]))
        => /\ (/\ loc[t].iters >= k
               /\ \A j \in 1..(k - 1) : loc[t].chain[j].co_filename.text # "")
              => Returned(t)
           /\ Returned(t) =>
                /\ loc[t].ret = 0 /\ Out(t) = Sentinel
                /\ loc[t].exit = "undecodable" /\ loc[t].pos = k

\* A walk has stopped at an undecodable innermost frame although the frame
\* outer to it is in scope.
C14_Witness ==
  \E t \in Threads :
    /\ Returned(t) /\ loc[t].traceConfig # 0 /\ loc[t].exit = "undecodable"
    /\ Len(loc[t].chain) = 2 /\ Undecodable(loc[t].chain[1])
    /\ InScope(FilterOf(t), loc[t].chain[2])

\* Some include entry of cfg is a byte string found in f.
SomeItemIn(cfg, f) ==
  \E i \in 1..Len(cfg.items) : cfg.items[i] # NULL /\ strstr(f, cfg.items[i][1])

\* Rules 1-4 leave f undecided under cfg, and f cannot be canonicalized.
Rule5Fails(cfg, f) ==
  /\ ~Rule1(f) /\ ~Rule2(f) /\ ~Rule3(f) /\ NoRule4(cfg, f)
  /\ realpath(f) = NULL

\* C15: a walk that asks should_trace about a name which rules 1-4 leave
\* undecided and realpath cannot resolve aborts the process, the call never
\* returning; and the process is aborted only so: the name the aborting
\* walk asked about last passed the pre-filter, matches none of rules 1-4
\* and has no canonical path.
C15_AbortOnlyRule5 ==
  /\ \A t \in Threads :
       \A j \in loc[t].asked :
         Rule5Fails(FilterOf(t), loc[t].chain[j].co_filename.text) =>
           /\ proc = "aborted"
           /\ Walking(t) /\ loc[t].ret = -1 /\ j = loc[t].pos - 1
  /\ proc = "aborted" =>
       \E t \in Threads :
         /\ Walking(t) /\ loc[t].ret = -1 /\ (loc[t].pos - 1) \in loc[t].asked
         /\ LET f == loc[t].chain[loc[t].pos - 1].co_filename.text
            IN /\ PreFilter(f)
               /\ ~Rule1(f) /\ ~Rule2(f) /\ ~Rule3(f)
               /\ ~SomeItemIn(FilterOf(t), f)
               /\ realpath(f) = NULL

\* The process has aborted at the second frame of a walk whose first frame,
\* a file that does not exist either, was decided by rule 1.
C15_Witness ==
  /\ proc = "aborted"
  /\ \E t \in Threads :
       /\ Walking(t) /\ loc[t].pos = 3 /\ loc[t].asked = {1, 2}
       /\ Rule1(loc[t].chain[1].co_filename.text)
       /\ realpath(loc[t].chain[1].co_filename.text) = NULL

\* The calling thread's own current frame in the snapshot (<<>>: none).
OwnFrame(snap) ==
  IF snap.self # 0 THEN snap.threads[snap.self].frame ELSE <<>>

\* Thread state i of the snapshot has the smallest id of all.
SmallestId(snap, i) ==
  \A j \in 1..Len(snap.threads) : snap.threads[i].id <= snap.threads[j].id

\* Thread t's call has chosen its starting frame.
Started(t) == pc[t] \in {"w_get", "w_walk", "w_ret"} /\ loc[t].gstate # "none"

\* C16: a call starts from the calling thread's own frame when it has one;
\* otherwise from the current frame of the thread state with the smallest
\* id, wherever that one is enumerated; and when there is no thread state,
\* or the one with the smallest id has no frame, there is nothing to walk
\* and the call returns 0 with the sentinel.
C16_FallbackSmallestId ==
  \A t \in Threads :
    Started(t) =>
      LET snap == loc[t].snap IN
      /\ OwnFrame(snap) # <<>> => loc[t].chain = OwnFrame(snap)
      /\ OwnFrame(snap) = <<>> =>
           /\ \A i \in 1..Len(snap.threads) :
                SmallestId(snap, i) => loc[t].chain = snap.threads[i].frame
           /\ snap.threads = <<>> => loc[t].chain = <<>>
           /\ (Returned(t) /\ loc[t].chain = <<>>) =>
                (loc[t].ret = 0 /\ Out(t) = Sentinel /\ loc[t].asked = {})

\* A call from a thread without a frame has found the outer frame of the
\* thread with the smallest id, which is enumerated last, after a thread
\* that has a frame too.
C16_Witness ==
  \E t \in Threads :
    /\ Returned(t) /\ loc[t].exit = "found"
    /\ OwnFrame(loc[t].snap) = <<>> /\ Len(loc[t].snap.threads) = 3
    /\ SmallestId(loc[t].snap, 3)
    /\ loc[t].snap.threads[2].frame # <<>>
    /\ loc[t].filename = loc[t].snap.threads[3].frame[2].co_filename.text

\* The filter that differs from cfg in profile_all only.
Flip(cfg) == [cfg EXCEPT !.profile_all = ~cfg.profile_all]

\* C17: profile_all has no effect.  Each time a walk has asked should_trace
\* about a name, the filter that differs from the one in use in profile_all
\* only gives the same outcomes for it, and so takes the decision the walk
\* took: it refuses the frame the walk went past, it accepts the frame the
\* walk returned.  (The frame asked about last is the one before pos, or the
\* one at pos when the walk returned it.)
C17_ProfileAllInert ==
  \A t \in Threads :
    (loc[t].traceConfig # 0 /\ (Walking(t) \/ Returned(t))) =>
      LET found == Returned(t) /\ loc[t].exit = "found"
          j == IF found THEN loc[t].pos ELSE loc[t].pos - 1
      IN j \in loc[t].asked =>
           LET f == loc[t].chain[j].co_filename.text
               other == should_trace(Flip(FilterOf(t)), f)
           IN /\ other = should_trace(FilterOf(t), f)
              /\ IF found THEN "true" \in other
                 ELSE other \cap {"false", "abort", "crash"} # {}

\* A walk under a filter with profile_all set has refused one frame and
\* returned the next.
C17_Witness ==
  \E t \in Threads :
    /\ Returned(t) /\ loc[t].exit = "found" /\ loc[t].asked = {1, 2}
    /\ FilterOf(t).profile_all
    /\ should_trace(Flip(FilterOf(t)), loc[t].chain[1].co_filename.text) = {"false"}

\* C18: as long as no filter has been installed, a call on an initialized
\* runtime never enters the loop: it returns 0 by the exit of line 177 with
\* the sentinel, no frame looked at and should_trace never called, and the
\* interpreter lock is back where it was before the call.
C18_NoFilterSentinel ==
  \A t \in Threads :
    instance = 0 =>
      /\ ~Walking(t)
      /\ (Returned(t) /\ loc[t].exit # "uninit") =>
           /\ loc[t].exit = "nofilter"
           /\ loc[t].ret = 0 /\ Out(t) = Sentinel
           /\ loc[t].iters = 0 /\ loc[t].asked = {} /\ loc[t].pos = 1
           /\ (gil = t) <=> loc[t].gilBefore

\* With no filter installed, a call made without the interpreter lock on a
\* chain of two frames has returned and the lock is free again.
C18_Witness ==
  \E t \in Threads :
    /\ instance = 0 /\ Returned(t) /\ loc[t].exit = "nofilter"
    /\ Len(loc[t].chain) = 2 /\ loc[t].gstate = "UNLOCKED" /\ gil = 0

\* Thread t waits for the interpreter lock, or for _instanceMutex.
WaitsGil(t) == pc[t] = "w_gil" /\ gil \notin {0, t}
WaitsMutex(t) == pc[t] \in {"r_lock", "w_get"} /\ mutex # 0
Blocked(t) == WaitsGil(t) \/ WaitsMutex(t)
\* A step of thread t: inside a call, or giving up the interpreter lock
\* outside one.
HolderStep(t) ==
  \/ PyDrop(t)
  \/ W_Gil(t) \/ W_Frame(t, SnapsC) \/ W_GetInstance(t) \/ W_Step(t) \/ W_Done(t)
  \/ S_Lock(t) \/ S_Delete(t) \/ S_Assign(t) \/ S_Unlock(t)
  \/ R_Publish(t) \/ R_Done(t)

\* C19: no deadlock between calls of whereInPython and
\* register_files_to_profile on different threads.  A thread asks for
\* _instanceMutex only while it holds the interpreter lock; it holds
\* _instanceMutex inside setInstance's swap only (getInstance's read is one
\* step) and never while it waits for the interpreter lock; a thread that
\* waits for a lock waits for a thread that does not wait and, while the
\* process runs, can take a step.
C19_NoDeadlock ==
  /\ \A t \in Threads :
       /\ pc[t] \in {"r_lock", "w_get"} => gil = t
       /\ mutex = t => (gil = t /\ InSwap(t))
       /\ WaitsGil(t) => (mutex # t /\ ~Blocked(gil))
       /\ WaitsMutex(t) => ~Blocked(mutex)
  /\ mutex \in Threads \cup {0} /\ gil \in Threads \cup {0}
  /\ proc = "running" =>
       /\ (\E t \in Threads : WaitsGil(t)) => ENABLED HolderStep(gil)
       /\ (\E t \in Threads : WaitsMutex(t)) => ENABLED HolderStep(mutex)

\* One thread waits for the interpreter lock while the other, inside the
\* swap, holds both locks.
C19_Witness ==
  \E t \in Threads, u \in Threads :
    /\ t # u /\ WaitsGil(u) /\ gil = t /\ mutex = t /\ pc[t] = "r_assign"

\* C20: a call that returns 1 returns the name of the frame it stopped at,
\* and that name holds no '<', no "/python" and not the profiler's own
\* fragment; no name should_trace was asked about during a walk is one rule
\* 2 accepts, so no "<ipython" frame is ever returned.
C20_FoundNameClean ==
  \A t \in Threads :
    /\ \A j \in loc[t].asked : ~Rule2(loc[t].chain[j].co_filename.text)
    /\ (Returned(t) /\ loc[t].ret = 1) =>
         /\ loc[t].exit = "found" /\ loc[t].pos \in loc[t].asked
         /\ loc[t].filename = loc[t].chain[loc[t].pos].co_filename.text
         /\ ~strstr(loc[t].filename, "<")
         /\ ~strstr(loc[t].filename, "/python")
         /\ ~strstr(loc[t].filename, "scalene/scalene")

\* A walk has gone past an "<ipython" frame, which should_trace accepts,
\* without asking, and returned the frame outer to it.
C20_Witness ==
  \E t \in Threads :
    /\ Returned(t) /\ loc[t].ret = 1 /\ loc[t].pos = 2 /\ loc[t].asked = {2}
    /\ Rule2(loc[t].chain[1].co_filename.text)
    /\ should_trace(FilterOf(t), loc[t].chain[1].co_filename.text) = {"true"}

====
